---- MODULE Spec2Model ----
(***************************************************************************)
(* Model of src/spp.py: a Slack bot built on slack_bolt.  Six keyword      *)
(* listeners (@app.message), one membership listener and one generic       *)
(* "message" listener are registered on one App, in source order; the      *)
(* generic listener delegates to get_gemini_response.                      *)
(*                                                                         *)
(* Texts are sequences of one-character strings, so that the regular       *)
(* expressions and str methods of the source are computed character by     *)
(* character.  A reply is the sequence of the pieces of the f-string that  *)
(* builds it.  An event is a record; "fields" is the set of keys the       *)
(* payload carries, and a key that is not in "fields" is absent from the   *)
(* Python dict.                                                            *)
(*                                                                         *)
(* slack_bolt semantics used by the decorators: listeners are tried in     *)
(* registration order and only the first one whose matcher accepts the     *)
(* event runs; @app.message(str) accepts a message whose text contains     *)
(* the keyword, @app.message(Pattern) one in which the pattern is found    *)
(* by a search; an exception raised by a listener is caught and logged by  *)
(* the framework; App() installs by default a middleware that drops the    *)
(* events the bot itself caused.                                           *)
(***************************************************************************)
EXTENDS Integers, Sequences, FiniteSets, TLC

VARIABLES pc, event, handler, replies, calls, returned, raised, log, creds

vars == <<pc, event, handler, replies, calls, returned, raised, log, creds>>

(***************************************************************************)
(* Bounds                                                                  *)
(***************************************************************************)
\* number of vocabulary words concatenated into a generated message text
MaxWords == 2

(***************************************************************************)
(* Characters                                                              *)
(***************************************************************************)
UpperAlpha == <<"A","B","C","D","E","F","G","H","I","J","K","L","M",
                "N","O","P","Q","R","S","T","U","V","W","X","Y","Z">>

LowerAlpha == <<"a","b","c","d","e","f","g","h","i","j","k","l","m",
                "n","o","p","q","r","s","t","u","v","w","x","y","z">>

Digits == {"0","1","2","3","4","5","6","7","8","9"}

Range(s) == {s[i] : i \in 1..Len(s)}

\* re.IGNORECASE compares characters up to case
Lower(c) ==
    IF c \in Range(UpperAlpha)
    THEN LowerAlpha[CHOOSE i \in 1..Len(UpperAlpha) : UpperAlpha[i] = c]
    ELSE c

\* \w of the re module
IsWordChar(c) == c \in Range(UpperAlpha) \cup Range(LowerAlpha) \cup Digits \cup {"_"}

\* the characters str.strip() removes
Whitespace == {" ", "\t", "\n", "\r"}

(***************************************************************************)
(* Pattern matching, as the re module and the str operators compute it     *)
(***************************************************************************)
\* the literal lit occurs in text starting at index pos (1-based)
LitAt(lit, text, pos, ignorecase) ==
    /\ pos >= 1
    /\ pos + Len(lit) - 1 <= Len(text)
    /\ \A k \in 1..Len(lit) :
          IF ignorecase
          THEN Lower(text[pos + k - 1]) = Lower(lit[k])
          ELSE text[pos + k - 1] = lit[k]

\* re.search of a literal / the `in` operator on str
Contains(lit, text, ignorecase) ==
    \E pos \in 1..(Len(text) + 1) : LitAt(lit, text, pos, ignorecase)

\* \b after the first n characters of text
WordBoundary(text, n) ==
    LET before == n >= 1 /\ n <= Len(text) /\ IsWordChar(text[n])
        after  == n + 1 <= Len(text) /\ IsWordChar(text[n + 1])
    IN  before # after

\* ^(a|b)\b with re.IGNORECASE
AnchoredWord(alts, text) ==
    \E lit \in alts : LitAt(lit, text, 1, TRUE) /\ WordBoundary(text, Len(lit))

RECURSIVE WordRun(_, _)
\* the number of \w characters of text from index i on (the greedy \w+)
WordRun(text, i) ==
    IF i <= Len(text) /\ IsWordChar(text[i]) THEN 1 + WordRun(text, i + 1) ELSE 0

\* length of the match of <@\w+> at index i, 0 when there is none
MentionLenAt(text, i) ==
    IF i + 1 <= Len(text) /\ text[i] = "<" /\ text[i + 1] = "@"
    THEN LET run == WordRun(text, i + 2)
         IN  IF run >= 1 /\ i + 2 + run <= Len(text) /\ text[i + 2 + run] = ">"
             THEN run + 3
             ELSE 0
    ELSE 0

\* re.search(r"<@\w+>", text)
HasMention(text) == \E i \in 1..Len(text) : MentionLenAt(text, i) > 0

RECURSIVE SubMentions(_, _)
\* re.sub(r"<@\w+>", "", text), scanning left to right from index i
SubMentions(text, i) ==
    IF i > Len(text) THEN <<>>
    ELSE LET n == MentionLenAt(text, i)
         IN  IF n > 0 THEN SubMentions(text, i + n)
             ELSE <<text[i]>> \o SubMentions(text, i + 1)

\* str.strip()
Strip(text) ==
    LET keep == {i \in 1..Len(text) : text[i] \notin Whitespace}
    IN  IF keep = {} THEN <<>>
        ELSE LET lo == CHOOSE i \in keep : \A j \in keep : i <= j
                 hi == CHOOSE i \in keep : \A j \in keep : i >= j
             IN  SubSeq(text, lo, hi)

(***************************************************************************)
(* The keywords of the six @app.message listeners                          *)
(***************************************************************************)
KwHello    == <<"h","e","l","l","o">>
KwHi       == <<"h","i">>
KwHowAreYou == <<"h","o","w"," ","a","r","e"," ","y","o","u">>
KwPing     == <<"p","i","n","g">>
KwThanks   == <<"t","h","a","n","k","s">>
KwThankYou == <<"t","h","a","n","k"," ","y","o","u">>
KwTip      == <<"g","i","v","e"," ","m","e"," ","a"," ","t","i","p">>
KwBye      == <<"b","y","e">>
KwGoodbye  == <<"g","o","o","d","b","y","e">>

\* re.compile(r"^(hello|hi)\b", re.IGNORECASE)
MatchHello(text) == AnchoredWord({KwHello, KwHi}, text)

\* re.compile(r"how are you\??", re.IGNORECASE): the optional "?" never
\* decides whether a match exists
MatchStatus(text) ==
    \E pos \in 1..Len(text) :
        /\ LitAt(KwHowAreYou, text, pos, TRUE)
        /\ \E q \in {0, 1} : q = 1 => LitAt(<<"?">>, text, pos + Len(KwHowAreYou), FALSE)

\* the keyword compared with the whole text instead
MatchPingWholeText(text) == text = KwPing

\* "ping": a str keyword is looked for inside the text
MatchPing(text) == Contains(KwPing, text, FALSE)

\* re.compile(r"thanks|thank you", re.IGNORECASE)
MatchThanks(text) == Contains(KwThanks, text, TRUE) \/ Contains(KwThankYou, text, TRUE)

\* "give me a tip"
MatchTip(text) == Contains(KwTip, text, FALSE)

\* re.compile(r"^(bye|goodbye)\b", re.IGNORECASE)
MatchBye(text) == AnchoredWord({KwBye, KwGoodbye}, text)

(***************************************************************************)
(* Events delivered by the chat platform                                   *)
(***************************************************************************)
\* the auth.test identity of this app, used by the self-event middleware
BotUserId == "UBOT"
SelfBotId == "BSELF"

Users  == {"U123", BotUserId}
BotIds == {SelfBotId, "BOTHER"}
ChannelTypes == {"channel", "im"}

\* the words generated texts are made of
Vocabulary ==
    { <<"h","i">>, <<"p","i","n","g">>, <<" ">>, <<"<","@","U","1","2","3",">">>,
      <<"t","h","a","n","k","s">> }

\* texts of the documented examples and one text for each remaining rule
SampleTexts ==
    { <<"h","e","l","l","o"," ","t","h","e","r","e">>,
      <<"H","I">>,
      <<"h","i","l","l","s","i","d","e">>,
      <<"h","e","l","l","o",","," ","h","o","w"," ","a","r","e"," ","y","o","u","?">>,
      <<"P","i","n","g">>,
      <<" ","p","i","n","g"," ">>,
      <<"s","h","i","p","p","i","n","g">>,
      <<"<","@","U","1","2","3",">"," ","p","i","n","g"," ","t","h","e"," ","s","e","r","v","e","r">>,
      <<"<","@","U","1","2","3",">"," ","e","x","p","l","a","i","n"," ","r","e","c","u","r","s","i","o","n">>,
      <<"g","i","v","e"," ","m","e"," ","a"," ","t","i","p">>,
      <<"T","h","a","n","k"," ","y","o","u">>,
      <<"g","o","o","d","b","y","e"," ","a","l","l">>,
      <<"h","i"," ","p","i","n","g">>,
      <<"<","@","U","1","2","3",">"," ","h","e","l","l","o">>,
      <<"h","o","w"," ","a","r","e"," ","y","o","u","?">>,
      <<"o","k">>,
      <<"b","y","e">>,
      <<" "," ">> }

RECURSIVE Phrases(_)
\* the concatenations of at most n vocabulary words
Phrases(n) ==
    IF n = 0 THEN {<<>>}
    ELSE LET shorter == Phrases(n - 1)
         IN  shorter \cup {p \o w : p \in shorter, w \in Vocabulary}

Texts == Phrases(MaxWords) \cup SampleTexts

NoEvent ==
    [type |-> "none", fields |-> {}, text |-> <<>>, user |-> "",
     bot_id |-> "", channel_type |-> ""]

\* a message event; a key outside "fields" is absent from the payload
MessageEvents ==
    { [type |-> "message",
       fields |-> {"channel_type"} \cup (IF hasText THEN {"text"} ELSE {})
                                   \cup (IF u # "" THEN {"user"} ELSE {})
                                   \cup (IF b # "" THEN {"bot_id"} ELSE {}),
       text |-> IF hasText THEN t ELSE <<>>,
       user |-> u, bot_id |-> b, channel_type |-> ct] :
         hasText \in BOOLEAN, t \in Texts, u \in Users \cup {""},
         b \in BotIds \cup {""}, ct \in ChannelTypes }

MemberEvents ==
    { [type |-> "member_joined_channel", fields |-> {"user"}, text |-> <<>>,
       user |-> u, bot_id |-> "", channel_type |-> ""] : u \in Users \cup {"U999"} }

Events == MessageEvents \cup MemberEvents

(***************************************************************************)
(* slack_bolt dispatch                                                     *)
(***************************************************************************)
\* IgnoringSelfEvents, installed by App(token=...): an event whose user or
\* bot_id is this app's own is acknowledged without running any listener;
\* membership events are kept
IsSelfEvent(ev) ==
    /\ ev.type # "member_joined_channel"
    /\ \/ "user" \in ev.fields /\ ev.user = BotUserId
       \/ "bot_id" \in ev.fields /\ ev.bot_id = SelfBotId

\* event.get("text", "") of the keyword matcher
KeywordText(ev) == IF "text" \in ev.fields THEN ev.text ELSE <<>>

\* thank_you_response registered before ping_pong
ListenerOrderThanksFirst ==
    << "message_hello", "message_status", "thank_you_response", "ping_pong",
       "give_tip", "message_bye", "welcome_new_member", "handle_general_message" >>

\* the listeners in registration (source) order
ListenerOrder ==
    << "message_hello", "message_status", "ping_pong", "thank_you_response",
       "give_tip", "message_bye", "welcome_new_member", "handle_general_message" >>

\* the matcher each decorator registers
Accepts(listener, ev) ==
    CASE listener = "message_hello"      -> ev.type = "message" /\ MatchHello(KeywordText(ev))
      [] listener = "message_status"     -> ev.type = "message" /\ MatchStatus(KeywordText(ev))
      [] listener = "ping_pong"          -> ev.type = "message" /\ MatchPing(KeywordText(ev))
      [] listener = "thank_you_response" -> ev.type = "message" /\ MatchThanks(KeywordText(ev))
      [] listener = "give_tip"           -> ev.type = "message" /\ MatchTip(KeywordText(ev))
      [] listener = "message_bye"        -> ev.type = "message" /\ MatchBye(KeywordText(ev))
      [] listener = "welcome_new_member" -> ev.type = "member_joined_channel"
      [] listener = "handle_general_message" -> ev.type = "message"
      [] OTHER -> FALSE

\* the listener that runs for ev: the first one that accepts it ("" if none)
Dispatch(ev) ==
    LET hits == {i \in 1..Len(ListenerOrder) : Accepts(ListenerOrder[i], ev)}
    IN  IF IsSelfEvent(ev) \/ hits = {} THEN ""
        ELSE ListenerOrder[CHOOSE i \in hits : \A j \in hits : i <= j]

(***************************************************************************)
(* Credentials                                                             *)
(***************************************************************************)
\* os.environ.get at import time; "" stands for an unset or empty variable
Credentials ==
    { [SLACK_BOT_TOKEN |-> "xoxb-secret", SLACK_APP_TOKEN |-> "xapp-secret",
       GEMINI_API_KEY |-> k] : k \in {"", "AIza-secret"} }

Secrets(c) == {c.SLACK_BOT_TOKEN, c.SLACK_APP_TOKEN, c.GEMINI_API_KEY} \ {""}

(***************************************************************************)
(* LLM Gateway: get_gemini_response                                        *)
(***************************************************************************)
OfflineMsg    == "I can't answer that right now. My AI brain is offline."
ConnectionMsg == "I'm having trouble connecting to my knowledge base right now. Please try again later."
NoResponseMsg == "No response found."
GenText       == "Recursion is a function calling itself."
\* the Python object None, which is not a str
PyNone        == "<None object>"

\* the f-string of api_url: the key is the query parameter
ApiUrl(key) ==
    <<"https://generativelanguage.googleapis.com/v1beta/models/gemini-pro:generateContent?key=", key>>

\* the JSON object of a 2xx response, by the shape of the path
\* candidates[0].content.parts[0].text; a step below an absent, null or
\* empty step is absent
Bodies ==
    { b \in [candidates : {"absent", "null", "[]", "[obj]"},
             content    : {"absent", "null", "obj"},
             parts      : {"absent", "null", "[]", "[obj]"},
             text       : {"absent", "null", "str"}] :
        /\ b.candidates # "[obj]" => b.content = "absent"
        /\ b.content # "obj" => b.parts = "absent"
        /\ b.parts # "[obj]" => b.text = "absent" }

\* the body of a response that has none the code reads
NoBody == [candidates |-> "absent", content |-> "absent", parts |-> "absent", text |-> "absent"]

\* what requests.post, raise_for_status and response.json can do
HttpOutcomes ==
    {[kind |-> k, body |-> NoBody] : k \in {"connection_error", "http_error", "invalid_json"}}
    \cup {[kind |-> "ok", body |-> b] : b \in Bodies}

Returns(v) == [value |-> v, exc |-> "none"]
Raises(e)  == [value |-> PyNone, exc |-> e]

\* result.get('candidates', [{}])[0].get('content', {}).get('parts', [{}])[0]
\*       .get('text', 'No response found.')
ExtractText(body) ==
    IF body.candidates = "null" THEN Raises("TypeError")          \* None[0]
    ELSE IF body.candidates = "[]" THEN Raises("IndexError")      \* [][0]
    ELSE IF body.content = "null" THEN Raises("AttributeError")   \* None.get
    ELSE IF body.parts = "null" THEN Raises("TypeError")          \* None[0]
    ELSE IF body.parts = "[]" THEN Raises("IndexError")           \* [][0]
    ELSE IF body.text = "absent" THEN Returns(NoResponseMsg)
    ELSE IF body.text = "null" THEN Returns(PyNone)
    ELSE Returns(GenText)

\* str(e) of the RequestException the except clause prints: requests puts
\* the request URL, query string included, in the message of a connection
\* error and of the HTTPError of raise_for_status
ExceptionText(kind, key) ==
    CASE kind = "connection_error" ->
            <<"HTTPSConnectionPool(host='generativelanguage.googleapis.com', port=443): Max retries exceeded with url: /v1beta/models/gemini-pro:generateContent?key=",
              key, " (Caused by NewConnectionError)">>
      [] kind = "http_error" -> <<"400 Client Error: Bad Request for url: ">> \o ApiUrl(key)
      [] OTHER -> <<"Expecting value: line 1 column 1 (char 0)">>

\* the result of one call: the value returned or the exception raised, the
\* lines printed, and whether an HTTP request was made
get_gemini_response(prompt, key, outcome) ==
    IF key = ""
    THEN [value |-> OfflineMsg, exc |-> "none", posted |-> FALSE,
          printed |-> << <<"GEMINI_API_KEY is not set.">> >>]
    ELSE IF outcome.kind = "ok"
    THEN [value |-> ExtractText(outcome.body).value, exc |-> ExtractText(outcome.body).exc,
          posted |-> TRUE, printed |-> <<>>]
    ELSE [value |-> ConnectionMsg, exc |-> "none", posted |-> TRUE,
          printed |-> << <<"Error calling Gemini API: ">> \o ExceptionText(outcome.kind, key) >>]

\* f"{response_text}"
Str(v) == IF v = PyNone THEN "None" ELSE v

(***************************************************************************)
(* Replies                                                                 *)
(***************************************************************************)
\* f"Hello, <@{user}>! " followed by the waving-hand emoji U+1F44B
HelloReply(user)   == <<"Hello, <@", user, ">! ", "U+1F44B">>
StatusReply(user)  == <<"I'm doing great, <@", user, ">! Thanks for asking.">>
PongReply          == <<"pong">>
ThanksReply(user)  == <<"You're welcome, <@", user, ">!">>
ByeReply(user)     == <<"Goodbye, <@", user, ">! Hope to talk to you again soon.">>
WelcomeReply(user) == <<"Welcome, <@", user, ">! I'm glad you're here.">>

tips ==
    << "Remember to stretch before coding.",
       "Take a short break every hour.",
       "Stay hydrated!" >>

\* a choice that never draws the last tip
TipChoicesWithoutLast == 1..(Len(tips) - 1)

\* the indices random.choice(tips) draws from
TipChoices == 1..Len(tips)

(***************************************************************************)
(* The state machine                                                       *)
(***************************************************************************)
Init ==
    /\ pc = "idle"
    /\ event = NoEvent
    /\ handler = ""
    /\ replies = <<>>
    /\ calls = <<>>
    /\ returned = <<>>
    /\ raised = "none"
    /\ log = <<>>
    /\ creds \in Credentials

\* handler.start(): the socket-mode listener hands the next event to the app
Deliver(ev) ==
    /\ pc = "idle"
    /\ pc' = "dispatch"
    /\ event' = ev
    /\ UNCHANGED <<handler, replies, calls, returned, raised, log, creds>>

\* the event is this app's own: no listener runs
ignoring_self_events ==
    /\ pc = "dispatch"
    /\ IsSelfEvent(event)
    /\ pc' = "handled"
    /\ UNCHANGED <<event, handler, replies, calls, returned, raised, log, creds>>

\* a listener that reads message['user'] and says the reply built from it
SayToUser(name, reply) ==
    /\ pc = "dispatch"
    /\ Dispatch(event) = name
    /\ pc' = "handled"
    /\ handler' = name
    /\ IF "user" \in event.fields
       THEN replies' = <<reply>> /\ raised' = raised
       ELSE replies' = replies /\ raised' = "KeyError"
    /\ UNCHANGED <<event, calls, returned, log, creds>>

message_hello == SayToUser("message_hello", HelloReply(event.user))

message_status == SayToUser("message_status", StatusReply(event.user))

ping_pong ==
    /\ pc = "dispatch"
    /\ Dispatch(event) = "ping_pong"
    /\ pc' = "handled"
    /\ handler' = "ping_pong"
    /\ replies' = <<PongReply>>
    /\ UNCHANGED <<event, calls, returned, raised, log, creds>>

thank_you_response == SayToUser("thank_you_response", ThanksReply(event.user))

\* give_tip when random.choice draws tips[i]
give_tip_choice(i) ==
    /\ pc = "dispatch"
    /\ Dispatch(event) = "give_tip"
    /\ pc' = "handled"
    /\ handler' = "give_tip"
    /\ replies' = << <<tips[i]>> >>
    /\ UNCHANGED <<event, calls, returned, raised, log, creds>>

give_tip == \E i \in TipChoices : give_tip_choice(i)

message_bye == SayToUser("message_bye", ByeReply(event.user))

welcome_new_member == SayToUser("welcome_new_member", WelcomeReply(event.user))

\* the fallback taken for every message
QualifiesAlways(text, ev) == TRUE

\* the condition of the if on the event text and channel type
Qualifies(text, ev) ==
    HasMention(text) \/ ("channel_type" \in ev.fields /\ ev.channel_type = "im")

\* re.sub(r"<@\w+>", "", text).strip()
CleanedText(text) == Strip(SubMentions(text, 1))

\* what one run of the body of handle_general_message does to the event ev
\* when the HTTP call, if made, ends with outcome: the replies said, the
\* prompts passed to the Gateway, what the Gateway returned, the exception
\* that left the handler and the lines printed
GeneralMessageEffect(ev, key, outcome) ==
    LET nothing == [replies |-> <<>>, calls |-> <<>>, returned |-> <<>>,
                    raised |-> "none", log |-> <<>>]
    IN  IF "bot_id" \in ev.fields
        THEN nothing                                    \* return
        ELSE IF "user" \notin ev.fields
        THEN [nothing EXCEPT !.raised = "KeyError"]     \* event["user"]
        ELSE IF "text" \notin ev.fields
        THEN [nothing EXCEPT !.raised = "TypeError"]    \* re.search(pattern, None)
        ELSE IF Qualifies(ev.text, ev)
        THEN LET cleaned_text == CleanedText(ev.text)
                 r == get_gemini_response(cleaned_text, key, outcome)
             IN  [replies  |-> IF r.exc = "none" THEN << <<Str(r.value)>> >> ELSE <<>>,
                  calls    |-> <<cleaned_text>>,
                  returned |-> << [value |-> r.value, exc |-> r.exc] >>,
                  raised   |-> r.exc,
                  log      |-> r.printed]
        ELSE nothing

handle_general_message ==
    /\ pc = "dispatch"
    /\ Dispatch(event) = "handle_general_message"
    /\ pc' = "handled"
    /\ handler' = "handle_general_message"
    /\ \E outcome \in HttpOutcomes :
          LET effect == GeneralMessageEffect(event, creds.GEMINI_API_KEY, outcome)
          IN  /\ replies' = effect.replies
              /\ calls' = effect.calls
              /\ returned' = effect.returned
              /\ raised' = effect.raised
              /\ log' = effect.log
    /\ UNCHANGED <<event, creds>>

\* the event has been handled and its payload is discarded
Ack ==
    /\ pc = "handled"
    /\ pc' = "idle"
    /\ event' = NoEvent
    /\ handler' = ""
    /\ replies' = <<>>
    /\ calls' = <<>>
    /\ returned' = <<>>
    /\ raised' = "none"
    /\ log' = <<>>
    /\ UNCHANGED creds

Next ==
    \/ \E ev \in Events : Deliver(ev)
    \/ ignoring_self_events
    \/ message_hello
    \/ message_status
    \/ ping_pong
    \/ thank_you_response
    \/ give_tip
    \/ message_bye
    \/ welcome_new_member
    \/ handle_general_message
    \/ Ack

Spec == Init /\ [][Next]_vars

(***************************************************************************)
(* Fairness: random.choice does not avoid one of the tips for ever         *)
(***************************************************************************)
FairSpec == Spec /\ \A i \in TipChoices : SF_vars(give_tip_choice(i))

(***************************************************************************)
(* Properties                                                              *)
(***************************************************************************)
\* the event being looked at has been handled completely
Handled == pc = "handled"

HandledMessage == Handled /\ event.type = "message"

\* the text of the event as str ("" when the key is absent)
EventText == IF "text" \in event.fields THEN event.text ELSE <<>>

\* text has the four characters p,i,n,g somewhere, in this case
HasPingInside(text) ==
    \E i \in 1..Len(text) :
        i + 3 <= Len(text) /\ SubSeq(text, i, i + 3) = <<"p","i","n","g">>

\* the number of the first of the six rules that matches text, 0 if none
FirstRule(text) ==
    IF MatchHello(text) THEN 1
    ELSE IF MatchStatus(text) THEN 2
    ELSE IF MatchPing(text) THEN 3
    ELSE IF MatchThanks(text) THEN 4
    ELSE IF MatchTip(text) THEN 5
    ELSE IF MatchBye(text) THEN 6
    ELSE 0

\* the replies rule n may send for the sender user
RuleReplies(n, user) ==
    CASE n = 1 -> {HelloReply(user)}
      [] n = 2 -> {StatusReply(user)}
      [] n = 3 -> {<<"pong">>}
      [] n = 4 -> {ThanksReply(user)}
      [] n = 5 -> { <<"Remember to stretch before coding.">>,
                    <<"Take a short break every hour.">>,
                    <<"Stay hydrated!">> }
      [] n = 6 -> {ByeReply(user)}
      [] OTHER -> {}

\* a well-formed message of a human user
FromUser ==
    /\ HandledMessage
    /\ {"text", "user"} \subseteq event.fields
    /\ "bot_id" \notin event.fields
    /\ ~IsSelfEvent(event)

\* C1: a message event that carries a bot_id gets no reply and causes no
\* Gateway call, whatever its text
C1_BotMessageGetsNoReply ==
    (HandledMessage /\ "bot_id" \in event.fields) => (replies = <<>> /\ calls = <<>>)

\* C2: every call of get_gemini_response returns a string and raises nothing
C2_GatewayReturnsString ==
    \A i \in 1..Len(returned) : returned[i].exc = "none" /\ returned[i].value # PyNone

\* C3: a message event without text or without user is handled with no
\* reply, no Gateway call and no exception leaving the handler
C3_MalformedEventAbsorbed ==
    (HandledMessage /\ ~({"text", "user"} \subseteq event.fields))
        => (replies = <<>> /\ calls = <<>> /\ raised = "none")

C7_FallbackRepliesOnce ==
    (/\ FromUser
     /\ FirstRule(event.text) = 0
     /\ (HasMention(event.text) \/ event.channel_type = "im"))
        => /\ calls = <<CleanedText(event.text)>>
           /\ Len(returned) = 1
           /\ returned[1].exc = "none"
           /\ replies = << <<returned[1].value>> >>

\* C8: the Gateway is never called with an empty prompt
C8_NoEmptyPrompt == \A i \in 1..Len(calls) : calls[i] # <<>>

\* C9: the credentials keep the values loaded at startup and no line the
\* program prints contains one of them
C9_CredentialsNeverLogged ==
    /\ [][creds' = creds]_vars
    /\ [](\A i \in 1..Len(log) : Range(log[i]) \cap Secrets(creds) = {})

\* a message of a user with text "give me a tip" has been delivered
TipRequested ==
    /\ pc = "dispatch"
    /\ event.type = "message"
    /\ {"text", "user"} \subseteq event.fields
    /\ "bot_id" \notin event.fields
    /\ ~IsSelfEvent(event)
    /\ event.text = KwTip

\* C10: a message with text "give me a tip" gets exactly one reply, one of
\* the three tips, and when such messages keep arriving each of the three
\* tips is eventually sent
C10_TipsAllEventuallySent ==
    /\ [](FromUser /\ event.text = KwTip =>
            /\ Len(replies) = 1
            /\ replies[1] \in RuleReplies(5, event.user))
    /\ ([]<>TipRequested) =>
            \A t \in RuleReplies(5, "") : <>(handler = "give_tip" /\ replies = <<t>>)

C10_Witness ==
    /\ FromUser
    /\ event.text = KwTip
    /\ handler = "give_tip"
    /\ replies = << <<"Stay hydrated!">> >>

====
